---- MODULE Spec2Model ----
(***************************************************************************)
(* Model of demo-rust-api (src/src/main.rs): an axum service keeping Items  *)
(* in an Arc<RwLock<HashMap<Uuid, Item>>>.  Every request handler is split  *)
(* into the steps at which it touches shared state: reading the clock,      *)
(* taking the lock and making its first access to the map, each further     *)
(* write of the map, and the return that drops the guard.                   *)
(*                                                                         *)
(* Option<T> is modelled as a sequence of length 0 (None) or 1 (Some(x)).   *)
(* Timestamps are readings of a clock that never goes backwards.            *)
(* Uuid::new_v4() is modelled by its contract: an id not generated before.  *)
(***************************************************************************)
EXTENDS Naturals, FiniteSets, Sequences, TLC

\* ---------------------------------------------------------------- bounds
\* Requests served in one run.
MaxRequests == 3

\* Worker tasks of the tokio runtime that run handlers in parallel.
Procs == {1, 2}

\* Every create takes one id, so a run generates at most MaxRequests of them.
Ids == 1..MaxRequests
Names == {"", "A"}
Descs == {"d"}

None == <<>>
Some(x) == <<x>>
OptOf(S) == {None} \cup {Some(x) : x \in S}

\* ------------------------------------------------------- status codes
OK == 200
CREATED == 201
NOT_FOUND == 404
\* What axum's Json extractor answers when the body lacks a required field.
UNPROCESSABLE_ENTITY == 422

VARIABLES
  items,     \* the HashMap<Uuid, Item> inside the RwLock
  lock,      \* the RwLock: [writer: set of at most one proc, readers: set of procs]
  clock,     \* the last reading chrono::Utc::now() returned
  nextId,    \* the next value Uuid::new_v4() returns
  pc,        \* each worker's position in its handler
  req,       \* each worker's request: [op, id, name, description]
  item,      \* create_item's local `item` (None outside create_item)
  resp,      \* each worker's response: [status, body]
  snap,      \* history: the map as it was when the worker took the lock
  stable,    \* history: the map as the last write guard to be dropped left it
  hist,      \* history: per id, what creates and deletes have returned
  nReq       \* number of requests received so far (bounded by MaxRequests)

vars == <<items, lock, clock, nextId, pc, req, item, resp, snap, stable, hist, nReq>>

\* ------------------------------------------------------------ data model
Item(id, name, description, created_at, updated_at) ==
  [id |-> id, name |-> name, description |-> description,
   created_at |-> created_at, updated_at |-> updated_at]

ApiResponse(success, data, message) ==
  [success |-> success, data |-> data, message |-> message]

HealthResponse(status, version, timestamp) ==
  [status |-> status, version |-> version, timestamp |-> timestamp]

\* What a handler hands back: the status code and the JSON body.
Response(status, body) == [status |-> status, body |-> body]

NoResp == Response(0, ApiResponse(FALSE, None, None))

NotFoundMessage(id) == Some(<<"Item with id ", id, " not found">>)

NoReq == [op |-> "none", id |-> 0, name |-> None, description |-> None]

EmptyMap == [k \in {} |-> 0]

\* ------------------------------------------------------------- the store
\* Faulty HashMap::insert call: the entry goes under a newly generated key
\* instead of the Item's id.
InsertFreshKey(m, id, it) ==
  [k \in DOMAIN m \cup {nextId} |-> IF k = nextId THEN it ELSE m[k]]

\* HashMap::insert: adds the entry, replacing one with the same key.
Insert(m, id, it) == [k \in DOMAIN m \cup {id} |-> IF k = id THEN it ELSE m[k]]

\* HashMap::get / get_mut: Some(entry) or None.
Get(m, id) == IF id \in DOMAIN m THEN Some(m[id]) ELSE None

\* Faulty HashMap::remove: the entry is looked up and left in the map.
RemoveKeeps(m, id) == m

\* HashMap::remove: the map without the key.
Remove(m, id) == [k \in DOMAIN m \ {id} |-> m[k]]

\* items.values().cloned().collect(): the entries in some order.
RECURSIVE Values(_)
Values(m) ==
  IF DOMAIN m = {} THEN <<>>
  ELSE LET k == CHOOSE x \in DOMAIN m : TRUE
       IN <<m[k]>> \o Values([j \in DOMAIN m \ {k} |-> m[j]])

\* Faulty RwLock::write: a writer waits for writers only, not for readers.
CanWriteAmongWriters(l) == l.writer = {}

\* Faulty RwLock::read: a reader does not wait for the writer.
CanReadAlways(l) == TRUE

\* RwLock::write returns once no guard is held; RwLock::read once no write guard is.
CanWrite(l) == l.writer = {} /\ l.readers = {}
CanRead(l) == l.writer = {}

\* Faulty Uuid::new_v4: the lowest id the store does not hold, so that the id of a
\* deleted Item, or of an Item not inserted yet, is handed out again.
NewV4LowestFree ==
  CHOOSE i \in 1..(MaxRequests + 1) :
    i \notin DOMAIN items /\ \A j \in 1..(i - 1) : j \in DOMAIN items

\* Uuid::new_v4()
NewV4 == nextId

\* chrono::Utc::now(): the previous reading when no time has passed at the
\* clock's resolution, a later one otherwise.  Only the order of the readings
\* matters to an Item, so one step forward stands for any later reading.
UtcNow(last) == {last, last + 1}

\* Faulty Item { .. }: updated_at is left at the epoch.
NewItemEpoch(id, name, description, now) == Item(id, name, description, now, 0)

\* create_item's item: both timestamps are the one clock reading.
NewItem(id, name, description, now) == Item(id, name, description, now, now)

\* Faulty description assignment: the payload's Option is assigned as it is, so
\* an omitted description clears the stored one.
ApplyDescriptionAlways(it, description) == [it EXCEPT !.description = description]

\* Faulty updated_at assignment: updated_at is reset to the epoch.
StampUpdateEpoch(it, now) == [it EXCEPT !.updated_at = 0]

\* Faulty updated_at assignment: created_at is stamped as well.
StampUpdateBoth(it, now) == [it EXCEPT !.updated_at = now, !.created_at = now]

\* update_item's three assignments.
ApplyName(it, name) == IF name # None THEN [it EXCEPT !.name = name[1]] ELSE it
ApplyDescription(it, description) ==
  IF description # None THEN [it EXCEPT !.description = Some(description[1])] ELSE it
StampUpdate(it, now) == [it EXCEPT !.updated_at = now]

\* ------------------------------------------------------------------ Init
\* created, deleted: how many creates have returned the id, how many deletes of
\* it have returned 200.  createdItem: the Item its create returned, kept until
\* the first update or delete of the id arrives.
NoHist == [created |-> 0, deleted |-> 0, createdItem |-> None]

Init ==
  /\ items = EmptyMap
  /\ lock = [writer |-> {}, readers |-> {}]
  /\ clock = 0
  /\ nextId = 1
  /\ pc = [p \in Procs |-> "idle"]
  /\ req = [p \in Procs |-> NoReq]
  /\ item = [p \in Procs |-> None]
  /\ resp = [p \in Procs |-> NoResp]
  /\ snap = [p \in Procs |-> EmptyMap]
  /\ stable = EmptyMap
  /\ hist = [i \in Ids |-> NoHist]
  /\ nReq = 0

\* ----------------------------------------------------------- environment
\* The requests a client can send.
Requests ==
  [op : {"health", "list"}, id : {0}, name : {None}, description : {None}]
    \cup [op : {"get", "delete"}, id : Ids, name : {None}, description : {None}]
    \cup [op : {"create"}, id : {0}, name : OptOf(Names), description : OptOf(Descs)]
    \cup [op : {"update"}, id : Ids, name : OptOf(Names), description : OptOf(Descs)]

\* Faulty CreateItemRequest: an empty name is refused as a missing one is.
JsonCreateNonEmpty(r) == r.name # None /\ r.name # Some("")

\* Json<CreateItemRequest>: `name: String` must be present; any string will do.
JsonCreate(r) == r.name # None

\* The router: the handler a request goes to.
Route(r) ==
  CASE r.op = "health" -> "health"
    [] r.op = "list" -> "list_items"
    [] r.op = "get" -> "get_item"
    [] r.op = "create" -> IF JsonCreate(r) THEN "create_item" ELSE "ret"
    [] r.op = "update" -> "update_item"
    [] r.op = "delete" -> "delete_item"

\* A request arrives at an idle worker.  A create whose body does not
\* deserialize is answered by the extractor and never reaches create_item.
Receive(p, r) ==
  /\ pc[p] = "idle"
  /\ nReq < MaxRequests
  /\ r.id <= nextId                               \* ids never generated are all alike
  /\ \A q \in Procs : pc[q] = "idle" => p <= q    \* idle workers are all alike
  /\ nReq' = nReq + 1
  /\ req' = [req EXCEPT ![p] = r]
  /\ pc' = [pc EXCEPT ![p] = Route(r)]
  /\ resp' = [resp EXCEPT ![p] =
        IF r.op = "create" /\ ~JsonCreate(r)
        THEN Response(UNPROCESSABLE_ENTITY, ApiResponse(FALSE, None, None))
        ELSE NoResp]
  /\ hist' = IF r.op \in {"update", "delete"}
             THEN [hist EXCEPT ![r.id].createdItem = None]
             ELSE hist
  /\ UNCHANGED <<items, lock, clock, nextId, item, snap, stable>>

\* Faulty None arm: the not-found arm answers 200.
NotFoundAsOk(id) == Response(OK, ApiResponse(TRUE, None, NotFoundMessage(id)))

\* Faulty None arm: the message does not name the id.
NotFoundGeneric(id) ==
  Response(NOT_FOUND, ApiResponse(FALSE, None, Some(<<"Item not found">>)))

\* The Err arm of get_item, update_item and delete_item.
NotFound(id) ==
  Response(NOT_FOUND, ApiResponse(FALSE, None, NotFoundMessage(id)))

\* Faulty health: it takes the read guard.
HealthReads(p) ==
  /\ pc[p] = "health"
  /\ CanRead(lock)
  /\ lock' = [lock EXCEPT !.readers = @ \cup {p}]
  /\ \E now \in UtcNow(clock) :
       /\ clock' = now
       /\ resp' = [resp EXCEPT ![p] =
             Response(OK, HealthResponse("healthy", "CARGO_PKG_VERSION", now))]
  /\ pc' = [pc EXCEPT ![p] = "ret"]
  /\ UNCHANGED <<items, nextId, req, item, snap, stable, hist, nReq>>

\* ---------------------------------------------------------------- health
Health(p) ==
  /\ pc[p] = "health"
  /\ \E now \in UtcNow(clock) :
       /\ clock' = now
       /\ resp' = [resp EXCEPT ![p] =
             Response(OK, HealthResponse("healthy", "CARGO_PKG_VERSION", now))]
  /\ pc' = [pc EXCEPT ![p] = "ret"]
  /\ UNCHANGED <<items, lock, nextId, req, item, snap, stable, hist, nReq>>

\* ------------------------------------------------------------ list_items
\* state.items.read(), then the clone of every value.
ListRead(p) ==
  /\ pc[p] = "list_items"
  /\ CanRead(lock)
  /\ lock' = [lock EXCEPT !.readers = @ \cup {p}]
  /\ snap' = [snap EXCEPT ![p] = items]
  /\ resp' = [resp EXCEPT ![p] =
        Response(OK, ApiResponse(TRUE, Some(Values(items)), None))]
  /\ pc' = [pc EXCEPT ![p] = "ret"]
  /\ UNCHANGED <<items, clock, nextId, req, item, stable, hist, nReq>>

\* -------------------------------------------------------------- get_item
\* Faulty get_item: the entry is taken out of the map (remove for get).
GetReadTakes(p) ==
  /\ pc[p] = "get_item"
  /\ CanRead(lock)
  /\ lock' = [lock EXCEPT !.readers = @ \cup {p}]
  /\ snap' = [snap EXCEPT ![p] = items]
  /\ items' = [k \in DOMAIN items \ {req[p].id} |-> items[k]]
  /\ resp' = [resp EXCEPT ![p] =
        LET found == Get(items, req[p].id)
        IN IF found # None
           THEN Response(OK, ApiResponse(TRUE, Some(found[1]), None))
           ELSE NotFound(req[p].id)]
  /\ pc' = [pc EXCEPT ![p] = "ret"]
  /\ UNCHANGED <<clock, nextId, req, item, stable, hist, nReq>>

\* state.items.read(), then match items.get(&id).
GetRead(p) ==
  /\ pc[p] = "get_item"
  /\ CanRead(lock)
  /\ lock' = [lock EXCEPT !.readers = @ \cup {p}]
  /\ snap' = [snap EXCEPT ![p] = items]
  /\ resp' = [resp EXCEPT ![p] =
        LET found == Get(items, req[p].id)
        IN IF found # None
           THEN Response(OK, ApiResponse(TRUE, Some(found[1]), None))
           ELSE NotFound(req[p].id)]
  /\ pc' = [pc EXCEPT ![p] = "ret"]
  /\ UNCHANGED <<items, clock, nextId, req, item, stable, hist, nReq>>

\* ----------------------------------------------------------- create_item
\* The clock reading and the new id, before the lock is asked for.
CreateBuild(p) ==
  /\ pc[p] = "create_item"
  /\ \E now \in UtcNow(clock) :
       /\ clock' = now
       /\ item' = [item EXCEPT ![p] =
             Some(NewItem(NewV4, req[p].name[1], req[p].description, now))]
  /\ nextId' = nextId + 1
  /\ pc' = [pc EXCEPT ![p] = "create_lock"]
  /\ UNCHANGED <<items, lock, req, resp, snap, stable, hist, nReq>>

\* state.items.write(), then items.insert(item.id, item.clone()).
CreateInsert(p) ==
  /\ pc[p] = "create_lock"
  /\ CanWrite(lock)
  /\ lock' = [lock EXCEPT !.writer = {p}]
  /\ snap' = [snap EXCEPT ![p] = items]
  /\ items' = Insert(items, item[p][1].id, item[p][1])
  /\ resp' = [resp EXCEPT ![p] =
        Response(CREATED,
                 ApiResponse(TRUE, item[p], Some("Item created successfully")))]
  /\ pc' = [pc EXCEPT ![p] = "ret"]
  /\ UNCHANGED <<clock, nextId, req, item, stable, hist, nReq>>

\* ----------------------------------------------------------- update_item
\* state.items.write(), match items.get_mut(&id), and in the Some arm the
\* assignment of the name.
UpdateName(p) ==
  /\ pc[p] = "update_item"
  /\ CanWrite(lock)
  /\ lock' = [lock EXCEPT !.writer = {p}]
  /\ snap' = [snap EXCEPT ![p] = items]
  /\ IF Get(items, req[p].id) # None
     THEN /\ items' = [items EXCEPT ![req[p].id] = ApplyName(@, req[p].name)]
          /\ pc' = [pc EXCEPT ![p] = "update_description"]
          /\ UNCHANGED resp
     ELSE /\ resp' = [resp EXCEPT ![p] = NotFound(req[p].id)]
          /\ pc' = [pc EXCEPT ![p] = "ret"]
          /\ UNCHANGED items
  /\ UNCHANGED <<clock, nextId, req, item, stable, hist, nReq>>

UpdateDescription(p) ==
  /\ pc[p] = "update_description"
  /\ items' = [items EXCEPT ![req[p].id] = ApplyDescription(@, req[p].description)]
  /\ pc' = [pc EXCEPT ![p] = "update_stamp"]
  /\ UNCHANGED <<lock, clock, nextId, req, item, resp, snap, stable, hist, nReq>>

\* Faulty update_item: updated_at is refreshed only when the body supplied a field.
UpdateStampIfChanged(p) ==
  /\ pc[p] = "update_stamp"
  /\ IF req[p].name = None /\ req[p].description = None
     THEN UNCHANGED <<items, clock>>
     ELSE \E now \in UtcNow(clock) :
            /\ clock' = now
            /\ items' = [items EXCEPT ![req[p].id] = StampUpdate(@, now)]
  /\ resp' = [resp EXCEPT ![p] =
        Response(OK, ApiResponse(TRUE, Some(items'[req[p].id]),
                                 Some("Item updated successfully")))]
  /\ pc' = [pc EXCEPT ![p] = "ret"]
  /\ UNCHANGED <<lock, nextId, req, item, snap, stable, hist, nReq>>

\* item.updated_at = chrono::Utc::now(), and the clone that goes into the response.
UpdateStamp(p) ==
  /\ pc[p] = "update_stamp"
  /\ \E now \in UtcNow(clock) :
       /\ clock' = now
       /\ items' = [items EXCEPT ![req[p].id] = StampUpdate(@, now)]
  /\ resp' = [resp EXCEPT ![p] =
        Response(OK, ApiResponse(TRUE, Some(items'[req[p].id]),
                                 Some("Item updated successfully")))]
  /\ pc' = [pc EXCEPT ![p] = "ret"]
  /\ UNCHANGED <<lock, nextId, req, item, snap, stable, hist, nReq>>

\* ----------------------------------------------------------- delete_item
\* state.items.write(), then match items.remove(&id).
DeleteRemove(p) ==
  /\ pc[p] = "delete_item"
  /\ CanWrite(lock)
  /\ lock' = [lock EXCEPT !.writer = {p}]
  /\ snap' = [snap EXCEPT ![p] = items]
  /\ items' = Remove(items, req[p].id)
  /\ resp' = [resp EXCEPT ![p] =
        IF Get(items, req[p].id) # None
        THEN Response(OK, ApiResponse(TRUE, None, Some("Item deleted successfully")))
        ELSE NotFound(req[p].id)]
  /\ pc' = [pc EXCEPT ![p] = "ret"]
  /\ UNCHANGED <<clock, nextId, req, item, stable, hist, nReq>>

\* ---------------------------------------------------------------- return
\* An update or a delete of id i has arrived and has not returned.
Touching(i) ==
  \E q \in Procs : req[q].op \in {"update", "delete"} /\ req[q].id = i

\* What the response adds to the history of id i.
Record(h, i, r, rs) ==
  CASE r.op = "create" /\ rs.status = CREATED ->
         [h EXCEPT !.created = @ + 1,
                   !.createdItem = IF Touching(i) THEN None ELSE rs.body.data]
    [] r.op = "delete" /\ rs.status = OK ->
         [h EXCEPT !.deleted = @ + 1]
    [] OTHER -> h

\* The id a response is about.
SubjectId(r, rs) ==
  IF r.op = "create" /\ rs.status = CREATED THEN rs.body.data[1].id ELSE r.id

\* Faulty return: the guard is never dropped.
ReturnKeepsGuard(p) ==
  /\ pc[p] = "ret"
  /\ hist' = LET i == SubjectId(req[p], resp[p])
             IN IF i \in Ids
                THEN [hist EXCEPT ![i] = Record(@, i, req[p], resp[p])]
                ELSE hist
  /\ stable' = IF p \in lock.writer THEN items ELSE stable
  /\ pc' = [pc EXCEPT ![p] = "idle"]
  /\ req' = [req EXCEPT ![p] = NoReq]
  /\ item' = [item EXCEPT ![p] = None]
  /\ resp' = [resp EXCEPT ![p] = NoResp]
  /\ snap' = [snap EXCEPT ![p] = EmptyMap]
  /\ UNCHANGED <<items, lock, clock, nextId, nReq>>

\* The handler returns: its guard, if it holds one, is dropped and the response
\* goes out.
Return(p) ==
  /\ pc[p] = "ret"
  /\ lock' = [writer |-> lock.writer \ {p}, readers |-> lock.readers \ {p}]
  /\ hist' = LET i == SubjectId(req[p], resp[p])
             IN IF i \in Ids
                THEN [hist EXCEPT ![i] = Record(@, i, req[p], resp[p])]
                ELSE hist
  /\ stable' = IF p \in lock.writer THEN items ELSE stable
  /\ pc' = [pc EXCEPT ![p] = "idle"]
  /\ req' = [req EXCEPT ![p] = NoReq]
  /\ item' = [item EXCEPT ![p] = None]
  /\ resp' = [resp EXCEPT ![p] = NoResp]
  /\ snap' = [snap EXCEPT ![p] = EmptyMap]
  /\ UNCHANGED <<items, clock, nextId, nReq>>

\* ------------------------------------------------------------------ Next
Next ==
  \/ \E p \in Procs : \E r \in Requests : Receive(p, r)
  \/ \E p \in Procs : Health(p)
  \/ \E p \in Procs : ListRead(p)
  \/ \E p \in Procs : GetRead(p)
  \/ \E p \in Procs : CreateBuild(p)
  \/ \E p \in Procs : CreateInsert(p)
  \/ \E p \in Procs : UpdateName(p)
  \/ \E p \in Procs : UpdateDescription(p)
  \/ \E p \in Procs : UpdateStamp(p)
  \/ \E p \in Procs : DeleteRemove(p)
  \/ \E p \in Procs : Return(p)

Spec == Init /\ [][Next]_vars

\* The steps of worker p's handler.
Step(p) ==
  \/ Health(p) \/ ListRead(p) \/ GetRead(p)
  \/ CreateBuild(p) \/ CreateInsert(p)
  \/ UpdateName(p) \/ UpdateDescription(p) \/ UpdateStamp(p)
  \/ DeleteRemove(p) \/ Return(p)

\* Fair scheduling of the worker tasks: a handler whose next step stays
\* possible takes it; a lock that stays free is given to a handler waiting for it.
FairSpec == Spec /\ \A p \in Procs : WF_vars(Step(p))

\* ============================================================ properties
\* Worker p has built its response to an `op` request and has not returned yet
\* (a guard it took is still held).
AtRet(p, op) == pc[p] = "ret" /\ req[p].op = op

RECURSIVE Sum(_, _)
Sum(f, S) ==
  IF S = {} THEN 0
  ELSE LET x == CHOOSE y \in S : TRUE IN f[x] + Sum(f, S \ {x})

\* Creates that have returned 201, deletes that have returned 200.
Creates == Sum([i \in Ids |-> hist[i].created], Ids)
Deletes == Sum([i \in Ids |-> hist[i].deleted], Ids)

\* The Item an update found, the Item it left, the Item it returned.
Old(p) == snap[p][req[p].id]
New(p) == items[req[p].id]
Data(p) == resp[p].body.data[1]

\* ---------------------------------------------------------------------- C1
\* C1: whenever no write is in progress, the store holds as many Items as
\* creates have returned 201 minus deletes have returned 200; every id whose
\* create has returned and whose delete has not is in the store; and a list
\* returns exactly that many Items, no id twice.
C1_ListLengthIsCreatesMinusDeletes ==
  /\ lock.writer = {} =>
       /\ Cardinality(DOMAIN items) + Deletes = Creates
       /\ \A i \in Ids : hist[i].created > hist[i].deleted => i \in DOMAIN items
  /\ \A p \in Procs : AtRet(p, "list") =>
       LET v == Data(p)
       IN /\ Len(v) + Deletes = Creates
          /\ \A a, b \in 1..Len(v) : a # b => v[a].id # v[b].id

\* A list taken after one create and one delete have returned.
C1_Witness ==
  /\ Creates = 1 /\ Deletes = 1
  /\ \E p \in Procs : AtRet(p, "list") /\ Len(Data(p)) = 0

C4_GetAfterCreate ==
  \A p \in Procs : AtRet(p, "get") =>
    /\ hist[req[p].id].createdItem # None =>
         /\ resp[p].status = OK
         /\ resp[p].body.data = hist[req[p].id].createdItem
    /\ resp[p].status = OK => hist[req[p].id].created = 1

C4_Witness ==
  \E p \in Procs :
    /\ AtRet(p, "get") /\ resp[p].status = OK
    /\ hist[req[p].id].createdItem # None

\* ---------------------------------------------------------------------- C5
\* C5: after a successful update the stored name is the supplied name, or the
\* prior one when none was supplied; likewise the description; and the Item
\* returned is the Item stored.
C5_UpdateAppliesSuppliedFields ==
  \A p \in Procs : AtRet(p, "update") /\ resp[p].status = OK =>
    /\ New(p).name = (IF req[p].name = None THEN Old(p).name ELSE req[p].name[1])
    /\ New(p).description =
         (IF req[p].description = None THEN Old(p).description
          ELSE req[p].description)
    /\ Data(p) = New(p)

C5_Witness ==
  \E p \in Procs :
    /\ AtRet(p, "update") /\ resp[p].status = OK
    /\ req[p].description = None /\ Old(p).description # None
    /\ req[p].name # None /\ Old(p).name # req[p].name[1]

C8_DeletedStaysDeleted ==
  /\ \A i \in Ids : hist[i].deleted > 0 => i \notin DOMAIN items
  /\ \A i \in Ids : hist[i].deleted <= 1
  /\ \A p \in Procs :
       /\ pc[p] = "ret" /\ req[p].op \in {"get", "update", "delete"}
       /\ hist[req[p].id].deleted > 0
       => /\ resp[p].status = NOT_FOUND
          /\ items = snap[p]

C8_Witness ==
  \E p \in Procs :
    /\ AtRet(p, "delete") /\ hist[req[p].id].deleted = 1
    /\ resp[p].status = NOT_FOUND

\* ---------------------------------------------------------------------- C9
\* C9: a get, update or delete of an id the store does not hold answers 404,
\* and a 404 leaves the store exactly as the handler found it; an update that
\* answers 200 has every supplied field and the new updated_at in place.
C9_NotFoundLeavesStore ==
  \A p \in Procs :
    pc[p] = "ret" /\ req[p].op \in {"get", "update", "delete"} =>
      /\ (req[p].id \notin DOMAIN snap[p]) <=> (resp[p].status = NOT_FOUND)
      /\ resp[p].status = NOT_FOUND => items = snap[p] /\ ~resp[p].body.success
      /\ req[p].op = "update" /\ resp[p].status = OK =>
           /\ req[p].name # None => New(p).name = req[p].name[1]
           /\ req[p].description # None => New(p).description = req[p].description
           /\ New(p).updated_at = Data(p).updated_at
           /\ DOMAIN items = DOMAIN snap[p]

C9_Witness ==
  \E p \in Procs :
    /\ AtRet(p, "update") /\ resp[p].status = NOT_FOUND
    /\ snap[p] # EmptyMap

\* --------------------------------------------------------------------- C10
\* C10: while a write guard is held no read guard is, and at most one write
\* guard is held; what a get or a list returns for an Item is the Item as the
\* last completed write left it, never the state in the middle of an update.
C10_ReadersSeeWholeUpdates ==
  /\ lock.writer # {} => lock.readers = {} /\ Cardinality(lock.writer) = 1
  /\ \A p \in Procs : AtRet(p, "get") /\ resp[p].status = OK =>
       Get(stable, req[p].id) = resp[p].body.data
  /\ \A p \in Procs : AtRet(p, "list") =>
       /\ Len(Data(p)) = Cardinality(DOMAIN stable)
       /\ \A k \in 1..Len(Data(p)) : Get(stable, Data(p)[k].id) = Some(Data(p)[k])

\* A get has read Item i while an update of i waits for the lock.
C10_Witness ==
  \E p, q \in Procs :
    /\ AtRet(p, "get") /\ resp[p].status = OK
    /\ pc[q] = "update_item" /\ req[q].id = req[p].id

\* --------------------------------------------------------------------- C11
\* C11: when a delete and an update of the same id are in flight and the id
\* has been created and not deleted before, the delete answers 200 and the
\* Item is gone; an update of a created id answers 404 exactly when a delete
\* of it returned before the update took the lock, and 200 otherwise; and an
\* Item whose delete has returned is not in the store again.
C11_UpdateDeleteRace ==
  /\ \A p, q \in Procs :
       /\ AtRet(p, "delete")
       /\ req[q].op = "update" /\ req[q].id = req[p].id
       /\ hist[req[p].id].created = 1 /\ hist[req[p].id].deleted = 0
       => /\ resp[p].status = OK
          /\ req[p].id \notin DOMAIN items
  /\ \A q \in Procs : AtRet(q, "update") /\ hist[req[q].id].created = 1 =>
       /\ (resp[q].status = NOT_FOUND) <=> (hist[req[q].id].deleted = 1)
       /\ (resp[q].status = OK) <=> (hist[req[q].id].deleted = 0)
  /\ \A i \in Ids : hist[i].deleted = 1 => i \notin DOMAIN items

\* The delete has taken the lock first and the update of the same id waits.
C11_Witness ==
  \E p, q \in Procs :
    /\ AtRet(p, "delete") /\ resp[p].status = OK
    /\ pc[q] = "update_item" /\ req[q].id = req[p].id

\* --------------------------------------------------------------------- C12
\* C12: a successful update leaves the Item's id and created_at, and every
\* other entry of the store, as it found them; and no step changes the id or
\* the created_at of an Item that stays in the store.
C12_UpdateFrame ==
  /\ [](\A p \in Procs : AtRet(p, "update") /\ resp[p].status = OK =>
          /\ New(p).id = Old(p).id
          /\ New(p).created_at = Old(p).created_at
          /\ DOMAIN items = DOMAIN snap[p]
          /\ \A j \in DOMAIN items \ {req[p].id} : items[j] = snap[p][j])
  /\ [][\A i \in DOMAIN items \cap DOMAIN items' :
          /\ items'[i].id = items[i].id
          /\ items'[i].created_at = items[i].created_at]_vars

\* An update at a later clock reading, with a second Item in the store.
C12_Witness ==
  \E p \in Procs :
    /\ AtRet(p, "update") /\ resp[p].status = OK
    /\ New(p).updated_at > New(p).created_at
    /\ Cardinality(DOMAIN items) = 2

\* --------------------------------------------------------------------- C13
\* C13: no step of a worker that serves a health, a list or a get request
\* changes the store, whatever the answer.
C13_ReadsLeaveStore ==
  [][\A p \in Procs :
       req[p].op \in {"health", "list", "get"} /\ pc'[p] # pc[p] =>
         items' = items]_vars

\* A get that answered 404 and a health check, with an Item in the store.
C13_Witness ==
  \E p, q \in Procs :
    /\ AtRet(p, "get") /\ resp[p].status = NOT_FOUND
    /\ AtRet(q, "health")
    /\ items # EmptyMap /\ items = snap[p]

\* --------------------------------------------------------------------- C14
\* C14: a 404 of get, update or delete has success = false, no data and a
\* message naming the requested id; a 200 or 201 of list, get, create, update
\* or delete has success = true, and no data only when it is a delete.
C14_Envelope ==
  \A p \in Procs :
    pc[p] = "ret" /\ req[p].op \in {"list", "get", "create", "update", "delete"} =>
      LET b == resp[p].body
      IN /\ resp[p].status = NOT_FOUND =>
              /\ req[p].op \in {"get", "update", "delete"}
              /\ b.success = FALSE
              /\ b.data = None
              /\ b.message # None
              /\ Len(b.message[1]) >= 2
              /\ b.message[1][2] = req[p].id
         /\ resp[p].status \in {OK, CREATED} =>
              /\ b.success = TRUE
              /\ (b.data = None) <=> (req[p].op = "delete")
         /\ (resp[p].status = CREATED) => req[p].op = "create"

C14_Witness ==
  \E p \in Procs :
    /\ AtRet(p, "update") /\ resp[p].status = NOT_FOUND
    /\ resp[p].body.message = NotFoundMessage(req[p].id)

\* --------------------------------------------------------------------- C15
\* C15: when a create has built its 201, the Item in the response and the
\* Item in the store are the same and have created_at = updated_at.
C15_CreatedEqualsUpdatedAtCreation ==
  \A p \in Procs : AtRet(p, "create") /\ resp[p].status = CREATED =>
    /\ Data(p).created_at = Data(p).updated_at
    /\ Data(p).id \in DOMAIN items
    /\ items[Data(p).id] = Data(p)

\* A create that read the clock after it had moved.
C15_Witness ==
  \E p \in Procs :
    /\ AtRet(p, "create") /\ resp[p].status = CREATED
    /\ Data(p).created_at = 1 /\ items[Data(p).id].updated_at = 1

\* --------------------------------------------------------------------- C16
\* Worker p holds a guard of the lock.
Holding(p) == p \in lock.writer \cup lock.readers

\* C16: under fair scheduling every request a worker has received is
\* answered, and the worker then holds no guard: no reader or writer waits
\* for ever and no two handlers block each other.
C16_EveryRequestReturns ==
  \A p \in Procs : (pc[p] # "idle") ~> (pc[p] = "idle" /\ ~Holding(p))

\* A writer waits for a reader's guard while the reader has not returned.
C16_Witness ==
  \E p, q \in Procs :
    /\ pc[p] \in {"create_lock", "update_item", "delete_item"}
    /\ q \in lock.readers /\ pc[q] = "ret"

\* --------------------------------------------------------------------- C17
\* The positions at which a handler asks for the lock.
LockPoints == {"list_items", "get_item", "create_lock", "update_item", "delete_item"}

\* C17: a worker holds a guard only between taking it and returning; health
\* and a refused create never hold one; a worker that holds a guard can always
\* take its next step; a guard is taken only at the handler's lock point,
\* which is entered once per request, and given up only by returning; and
\* after the map call made as the guard is taken, the handler touches only
\* the entry it found.
C17_OneGuardPerRequest ==
  /\ [](\A p \in Procs :
          /\ pc[p] \in LockPoints \cup {"idle", "health", "create_item"} => ~Holding(p)
          /\ req[p].op = "health" => ~Holding(p)
          /\ req[p].op = "create" /\ req[p].name = None => ~Holding(p)
          /\ Holding(p) =>
               /\ pc[p] \in {"update_description", "update_stamp", "ret"}
               /\ ENABLED (UpdateDescription(p) \/ UpdateStamp(p) \/ Return(p)))
  /\ [][\A p \in Procs :
          /\ ~Holding(p) /\ Holding(p)' => pc[p] \in LockPoints
          /\ Holding(p) /\ ~Holding(p)' => pc'[p] = "idle" /\ req'[p] = NoReq
          /\ pc'[p] \in LockPoints /\ pc'[p] # pc[p] => pc[p] \in {"idle", "create_item"}
          /\ Holding(p) /\ Holding(p)' /\ pc'[p] # pc[p] =>
               /\ DOMAIN items' = DOMAIN items
               /\ \A j \in DOMAIN items \ {req[p].id} : items'[j] = items[j]]_vars

\* An update holds the write guard in mid-handler while a get waits for it.
C17_Witness ==
  \E p, q \in Procs :
    /\ Holding(p) /\ pc[p] = "update_stamp"
    /\ pc[q] = "get_item" /\ ~Holding(q)

\* --------------------------------------------------------------------- C18
\* C18: every entry of the map is keyed by the id of the Item it holds, and a
\* get that answers 200 returns an Item with the requested id.
C18_KeyIsItemId ==
  /\ \A k \in DOMAIN items : items[k].id = k
  /\ \A p \in Procs : AtRet(p, "get") /\ resp[p].status = OK =>
       Data(p).id = req[p].id

C18_Witness ==
  \E p \in Procs :
    /\ AtRet(p, "get") /\ resp[p].status = OK
    /\ Cardinality(DOMAIN items) = 2 /\ req[p].id = 2

\* --------------------------------------------------------------------- C19
\* C19: no step turns a present description of an Item in the store into an
\* absent one.
C19_DescriptionNeverRemoved ==
  [][\A i \in DOMAIN items \cap DOMAIN items' :
       items[i].description # None => items'[i].description # None]_vars

\* Updates that omitted the description, and one that supplied it to an Item
\* that had none, have left the Items with a description.
C19_Witness ==
  \E p \in Procs :
    /\ AtRet(p, "update") /\ resp[p].status = OK
    /\ req[p].description = None
    /\ Old(p).description = Some("d") /\ New(p).description = Some("d")

\* --------------------------------------------------------------------- C20
\* C20: an update of an id in the store whose body supplies neither field
\* answers 200, leaves name and description as they were, and sets updated_at
\* to a clock reading no earlier than any timestamp the store held.
C20_EmptyUpdateRefreshes ==
  \A p \in Procs :
    /\ AtRet(p, "update")
    /\ req[p].name = None /\ req[p].description = None
    /\ req[p].id \in DOMAIN snap[p]
    => /\ resp[p].status = OK
       /\ New(p).name = Old(p).name
       /\ New(p).description = Old(p).description
       /\ Data(p) = New(p)
       /\ New(p).updated_at <= clock
       /\ \A j \in DOMAIN snap[p] :
            /\ New(p).updated_at >= snap[p][j].updated_at
            /\ New(p).updated_at >= snap[p][j].created_at

\* updated_at has moved and nothing else has.
C20_Witness ==
  \E p \in Procs :
    /\ AtRet(p, "update") /\ resp[p].status = OK
    /\ req[p].name = None /\ req[p].description = None
    /\ New(p).updated_at > Old(p).updated_at
    /\ New(p) = [Old(p) EXCEPT !.updated_at = New(p).updated_at]

====
